---- MODULE Spec2Model ----
(***************************************************************************)
(* The rabbit-and-foxes hex game of src/src/index.js (lines 1-1258): the   *)
(* hex coordinate functions, the tile maps, the actors with their tile     *)
(* indices and their (tweened) world positions, the keydown handler with   *)
(* its turn sequence, and the animation frame that advances the tweens.    *)
(*                                                                         *)
(* World coordinates are kept in thousandths (1.77 -> 1770, 1.535 -> 1535, *)
(* 0.5 * 1.77 -> 885) so that tileToPosition stays in the integers.        *)
(***************************************************************************)
EXTENDS Integers, Sequences, FiniteSets, TLC

(***************************************************************************)
(* Program constants and model bounds                                      *)
(***************************************************************************)
LENGTH == 45

\* Model bounds standing for floor(0.8 * LENGTH), floor(LENGTH / 6) and
\* floor(LENGTH / 15): a small disc of tiles (rows -2 .. 2), few baby rabbits,
\* few foxes.
MAX_DISTANCE_THRESHOLD == 4
BABYRABBITS_NUM == 1
FOXES_NUM == 1
BEARS_NUM == LENGTH \div 40

\* Largest turnNumber the model lets the keydown handler reach.
MaxTurn == 3
\* The debug key 'p' is pressed while no stored height is this far above
\* the generated one
MaxRaise == 2

InitialLives == 10

\* Math.floor(LENGTH * LENGTH * 0.05)
MaxRewardedTurns == (LENGTH * LENGTH * 5) \div 100

(***************************************************************************)
(* Arithmetic helpers                                                      *)
(***************************************************************************)
\* JavaScript's % : the remainder takes the sign of the dividend.
JsRem(n, m) == IF n >= 0 THEN n % m ELSE -((-n) % m)

\* mod(n, m) == ((n % m) + m) % m
mod(n, m) == JsRem(JsRem(n, m) + m, m)

(***************************************************************************)
(* Hex coordinate system                                                   *)
(***************************************************************************)
\* Variant: the row is packed without its sign
XYto1DUnsignedRow(x, y) == (x + LENGTH) * 1000 + (IF y < 0 THEN -y ELSE y) + LENGTH

\* Variant: the row is packed without its offset
XYto1DNoRowOffset(x, y) == (x + LENGTH) * 1000 + y

XYto1D(x, y) == (x + LENGTH) * 1000 + y + LENGTH

oneDtoXY(key) == << (key \div 1000) - LENGTH, JsRem(key, 1000) - LENGTH >>

\* Variant: the row parity is taken with mod(), which is never negative
tileToPositionModParity(tileX, tileY) ==
    << (2 * tileX + mod(tileY, 2)) * 885, tileY * 1535 >>

\* Vector2((tileX + (tileY % 2) * 0.5) * 1.77, tileY * 1.535), in thousandths
tileToPosition(tileX, tileY) ==
    << (2 * tileX + JsRem(tileY, 2)) * 885, tileY * 1535 >>

\* "undefined", as a value comparable with positions and keys
Undefined == << >>

(***************************************************************************)
(* Terrain registry as buildScene leaves it                                *)
(***************************************************************************)
Abs(n) == IF n < 0 THEN -n ELSE n

\* tilePosition.length() < MAX_DISTANCE_THRESHOLD, for i, j in -LENGTH..LENGTH
InRadius(i, j) ==
    LET p == tileToPosition(i, j) IN
        /\ Abs(p[1]) < MAX_DISTANCE_THRESHOLD * 1000
        /\ Abs(p[2]) < MAX_DISTANCE_THRESHOLD * 1000
        /\ p[1] * p[1] + p[2] * p[2]
              < (MAX_DISTANCE_THRESHOLD * 1000) * (MAX_DISTANCE_THRESHOLD * 1000)

Tiles == { t \in (-LENGTH..LENGTH) \X (-LENGTH..LENGTH) : InRadius(t[1], t[2]) }

\* Map from the 1D key to the tile's position vector
\* (the generation loop runs i outermost, j innermost; a later set() of the
\* same key would overwrite an earlier one)
LoopBefore(s, t) == s[1] < t[1] \/ (s[1] = t[1] /\ s[2] <= t[2])

XYtoPositionDict ==
    [ k \in { XYto1D(t[1], t[2]) : t \in Tiles } |->
        LET last == CHOOSE t \in Tiles :
                        /\ XYto1D(t[1], t[2]) = k
                        /\ \A s \in Tiles : XYto1D(s[1], s[2]) = k => LoopBefore(s, t)
        IN  tileToPosition(last[1], last[2]) ]

\* XYtoPositionDict.get(key): undefined for a key that was never set
DictGet(key) ==
    IF key \in DOMAIN XYtoPositionDict THEN XYtoPositionDict[key] ELSE Undefined

Positions == { XYtoPositionDict[k] : k \in DOMAIN XYtoPositionDict }

\* getByValue(XYtoPositionDict, searchValue) != undefined
getByValueDefined(searchValue) ==
    \E k \in DOMAIN XYtoPositionDict : XYtoPositionDict[k] = searchValue

(***************************************************************************)
(* State                                                                   *)
(***************************************************************************)
VARIABLES
    hardTerrain,    \* Map position -> 0 | 1 (1: impassable)
    globalRabbit,   \* [tileX, tileY, angleMetric, position, tween]
    globalStar,     \* [tileX, tileY, position]
    foxes,          \* array of [tileX, tileY, position, tween]
    bears,          \* array of [tileX, tileY, position, tween]
    babyRabbits,    \* array of [tileX, tileY]
    lives,
    turnNumber,
    score,
    babiesLeft,
    status,         \* innerHTML of the "status" element
    overlay,        \* [display, background] of the "initialOverlay" element
    collected,      \* history: indices of the baby rabbits ever collected
    lastTurn,       \* history: what the last spacebar turn did
    built,          \* buildScene is past its awaits and has generated the terrain
    pending,        \* asset loads started and not yet resolved
    positionToHexDict, \* Map position -> Vector3 stored by hex(); y counts
                    \* from the generated height of the tile
    startButton,    \* style.display of the "start" element
    sampler,        \* the running getRandomValidTile call: [pc, i, j]
    thrown,         \* history: the undefined global the last keydown handler
                    \* dereferenced (TypeError), "" when it returned
    pToggle,
    mToggle,
    labels,         \* the tile labels: << index, y >> each
    foxLabels       \* array of marker positions [x, y, z]

vars == << hardTerrain, globalRabbit, globalStar, foxes, bears, babyRabbits,
           lives, turnNumber, score, babiesLeft, status, overlay,
           collected, lastTurn, built, pending, positionToHexDict,
           startButton, sampler, thrown, pToggle, mToggle, labels, foxLabels >>

loadVars == << built, pending, startButton, sampler >>

debugVars == << positionToHexDict, pToggle, mToggle, labels, foxLabels >>

(***************************************************************************)
(* Tile validity, adjacency resolver, pursuit                              *)
(***************************************************************************)
\* Variant: the hardTerrain test is left out
checkValidTileOnMapOnly(ht, tilePosition) == getByValueDefined(tilePosition)

\* getByValue(XYtoPositionDict, p) != undefined && hardTerrain.get(p) != 1
checkValidTile(ht, tilePosition) ==
    /\ getByValueDefined(tilePosition)
    /\ ht[tilePosition] # 1

\* Variant: the 300-degree rule of an even row tests tileY <= 0
AdjacentCandidateSignSlip(tileX, tileY, angle) ==
    IF angle = 0 THEN << tileX + 1, tileY >>
    ELSE IF angle = 180 THEN << tileX - 1, tileY >>
    ELSE IF mod(tileY, 2) = 0 THEN
        CASE angle = 300 -> << IF tileY <= 0 THEN tileX + 1 ELSE tileX, tileY + 1 >>
          [] angle = 240 -> << IF tileY >= 0 THEN tileX - 1 ELSE tileX, tileY + 1 >>
          [] angle = 120 -> << IF tileY > 0 THEN tileX - 1 ELSE tileX, tileY - 1 >>
          [] angle = 60  -> << IF tileY <= 0 THEN tileX + 1 ELSE tileX, tileY - 1 >>
    ELSE
        CASE angle = 300 -> << IF tileY > 0 THEN tileX + 1 ELSE tileX, tileY + 1 >>
          [] angle = 240 -> << IF tileY <= 0 THEN tileX - 1 ELSE tileX, tileY + 1 >>
          [] angle = 120 -> << IF tileY <= 0 THEN tileX - 1 ELSE tileX, tileY - 1 >>
          [] angle = 60  -> << IF tileY > 0 THEN tileX + 1 ELSE tileX, tileY - 1 >>

\* Variant: the 300-degree rule of an even row with its two cases exchanged
AdjacentCandidateExchanged(tileX, tileY, angle) ==
    IF angle = 0 THEN << tileX + 1, tileY >>
    ELSE IF angle = 180 THEN << tileX - 1, tileY >>
    ELSE IF mod(tileY, 2) = 0 THEN
        CASE angle = 300 -> << IF tileY < 0 THEN tileX ELSE tileX + 1, tileY + 1 >>
          [] angle = 240 -> << IF tileY >= 0 THEN tileX - 1 ELSE tileX, tileY + 1 >>
          [] angle = 120 -> << IF tileY > 0 THEN tileX - 1 ELSE tileX, tileY - 1 >>
          [] angle = 60  -> << IF tileY <= 0 THEN tileX + 1 ELSE tileX, tileY - 1 >>
    ELSE
        CASE angle = 300 -> << IF tileY > 0 THEN tileX + 1 ELSE tileX, tileY + 1 >>
          [] angle = 240 -> << IF tileY <= 0 THEN tileX - 1 ELSE tileX, tileY + 1 >>
          [] angle = 120 -> << IF tileY <= 0 THEN tileX - 1 ELSE tileX, tileY - 1 >>
          [] angle = 60  -> << IF tileY > 0 THEN tileX + 1 ELSE tileX, tileY - 1 >>

\* The candidate the resolver computes for each direction label
AdjacentCandidate(tileX, tileY, angle) ==
    IF angle = 0 THEN << tileX + 1, tileY >>
    ELSE IF angle = 180 THEN << tileX - 1, tileY >>
    ELSE IF mod(tileY, 2) = 0 THEN
        CASE angle = 300 -> IF tileY < 0 THEN << tileX + 1, tileY + 1 >>
                                         ELSE << tileX, tileY + 1 >>
          [] angle = 240 -> IF tileY >= 0 THEN << tileX - 1, tileY + 1 >>
                                          ELSE << tileX, tileY + 1 >>
          [] angle = 120 -> IF tileY > 0 THEN << tileX - 1, tileY - 1 >>
                                         ELSE << tileX, tileY - 1 >>
          [] angle = 60  -> IF tileY <= 0 THEN << tileX + 1, tileY - 1 >>
                                          ELSE << tileX, tileY - 1 >>
    ELSE
        CASE angle = 300 -> IF tileY > 0 THEN << tileX + 1, tileY + 1 >>
                                         ELSE << tileX, tileY + 1 >>
          [] angle = 240 -> IF tileY <= 0 THEN << tileX - 1, tileY + 1 >>
                                          ELSE << tileX, tileY + 1 >>
          [] angle = 120 -> IF tileY <= 0 THEN << tileX - 1, tileY - 1 >>
                                          ELSE << tileX, tileY - 1 >>
          [] angle = 60  -> IF tileY > 0 THEN << tileX + 1, tileY - 1 >>
                                         ELSE << tileX, tileY - 1 >>

\* The order in which the resolver pushes its entries
ResolverOrder == << 0, 180, 300, 240, 120, 60 >>

RECURSIVE AdjacentFrom(_, _, _, _)
AdjacentFrom(ht, tileX, tileY, n) ==
    IF n > Len(ResolverOrder) THEN << >>
    ELSE LET c == AdjacentCandidate(tileX, tileY, ResolverOrder[n])
             indexPosition == XYto1D(c[1], c[2])
             rest == AdjacentFrom(ht, tileX, tileY, n + 1)
         IN  IF checkValidTile(ht, DictGet(indexPosition))
             THEN << << indexPosition, ResolverOrder[n] >> >> \o rest
             ELSE rest

\* Array of [index, angle] of the accessible adjacent tiles
getAllAdjacentTiles(ht, tileX, tileY) == AdjacentFrom(ht, tileX, tileY, 1)

\* tile.distanceTo(rabbitPosition), squared
DistanceSq(p, q) == (p[1] - q[1]) * (p[1] - q[1]) + (p[2] - q[2]) * (p[2] - q[2])

\* The loop of getClosestAdjacentTileToRabbit.  The code compares distances
\* computed in double precision from products with 1.77 and 1.535: two
\* neighbours that are exactly as far from the player can come out a last
\* digit apart (from (0, 1), with the player on (0, 1) too, the east
\* neighbour gives 1.7700000000000002 and the west one 1.77), so between
\* exactly equidistant entries the comparison can go either way.  The
\* result is the set of [closestTile, angle] the loop can end with;
\* << >> stands for [undefined, undefined].
RECURSIVE ClosestFrom(_, _, _, _, _)
ClosestFrom(allAdjacent, rabbitPosition, n, best, minDistance) ==
    IF n > Len(allAdjacent) THEN { best }
    ELSE LET d == DistanceSq(DictGet(allAdjacent[n][1]), rabbitPosition)
             taken == ClosestFrom(allAdjacent, rabbitPosition, n + 1,
                                  allAdjacent[n], d)
             kept == ClosestFrom(allAdjacent, rabbitPosition, n + 1,
                                 best, minDistance)
         IN  IF minDistance < 0 \/ d < minDistance THEN taken
             ELSE IF d = minDistance THEN taken \cup kept
             ELSE kept

\* minDistance starts at Infinity (here -1)
getClosestAdjacentTileToRabbit(allAdjacent, rabbitX, rabbitY) ==
    ClosestFrom(allAdjacent, DictGet(XYto1D(rabbitX, rabbitY)), 1, << >>, -1)

(***************************************************************************)
(* DOM texts and the end screen                                            *)
(***************************************************************************)
StatusCantGo == << "YOU CAN'T GO THERE" >>
StatusDoingGreat == << "YOU'RE DOING GREAT" >>
StatusBabyLocated == << "BABY LOCATED" >>
StatusAllBabies == << "YOU RETURNED HOME WITH ALL YOUR BABIES!" >>
StatusOnlyBabies(n) == << "YOU MANAGED TO RETURN HOME WITH ONLY ", n, " BABIES..." >>
StatusDied == << "UNFORTUNATELY, YOU DIED." >>

\* g carries the globals a turn works on:
\*   [rabbit, lives, score, babiesLeft, status, overlay, collected, ...]
endGame(type, g) ==
    LET shown == [ g EXCEPT !.overlay.display = "block" ] IN
    IF type = 1 THEN
        [ shown EXCEPT !.status = IF g.babiesLeft = 0
                                  THEN StatusAllBabies
                                  ELSE StatusOnlyBabies(g.babiesLeft),
                       !.won = TRUE ]
    ELSE IF type = -1 THEN
        [ shown EXCEPT !.overlay.background = "#990000",
                       !.status = StatusDied,
                       !.lost = TRUE ]
    ELSE shown

(***************************************************************************)
(* Score and lives                                                         *)
(***************************************************************************)
updateScore(scoreType, turn, sc) ==
    CASE scoreType = 1  -> sc + 10
      [] scoreType = 2  -> IF turn < MaxRewardedTurns THEN sc + 1 ELSE sc
      [] scoreType = 10 -> IF turn < MaxRewardedTurns
                           THEN sc + 2 * (MaxRewardedTurns - turn) ELSE sc
      [] scoreType = -1 -> sc - 5
      [] scoreType = -2 -> sc - 10
      [] OTHER -> sc

\* Variant: the fox branch copies the bear's penalty
LivesAfterSamePenalty(type, l) ==
    IF type = 4 THEN l - 4 ELSE IF type = 2 THEN l - 4 ELSE l

LivesAfter(type, l) ==
    IF type = 4 THEN l - 4 ELSE IF type = 2 THEN l - 2 ELSE l

updateLives(type, g) ==
    LET g1 == [ g EXCEPT !.lives = LivesAfter(type, g.lives) ] IN
    IF g1.lives <= 0 THEN endGame(-1, g1) ELSE g1

(***************************************************************************)
(* Tweens: a world position is a list of waypoints.  << p >> is the point  *)
(* p itself; << q >> \o w is the jump's middle position, three quarters of *)
(* the way from w to q (translationVec * .75 + position * .25).            *)
(***************************************************************************)
NoTween == [ mid |-> << >>, end |-> << >> ]

\* Variant: fallDown is not chained, the jump ends at the middle position
StartTweenUnchained(position, target) ==
    [ mid |-> << target >> \o position, end |-> << target >> \o position ]

\* jumpUp.to(middlePosition).chain(fallDown.to(translationVec)).start()
StartTween(position, target) ==
    [ mid |-> << target >> \o position, end |-> << target >> ]

(***************************************************************************)
(* The player's move                                                       *)
(***************************************************************************)
\* Variant: the 60-degree rule of an even row tests prevY < 0
MoveTargetSignSlip(prevX, prevY, angleMetric) ==
    IF mod(angleMetric, 360) = 0 THEN << prevX + 1, prevY >>
    ELSE IF mod(angleMetric + 180, 360) = 0 THEN << prevX - 1, prevY >>
    ELSE IF mod(prevY, 2) = 0 THEN
        CASE mod(angleMetric + 60, 360) = 0 ->
                << IF prevY < 0 THEN prevX + 1 ELSE prevX, prevY + 1 >>
          [] mod(angleMetric + 120, 360) = 0 ->
                << IF prevY >= 0 THEN prevX - 1 ELSE prevX, prevY + 1 >>
          [] mod(angleMetric + 240, 360) = 0 ->
                << IF prevY > 0 THEN prevX - 1 ELSE prevX, prevY - 1 >>
          [] mod(angleMetric + 300, 360) = 0 ->
                << IF prevY < 0 THEN prevX + 1 ELSE prevX, prevY - 1 >>
          [] OTHER -> << prevX, prevY >>
    ELSE
        CASE mod(angleMetric + 60, 360) = 0 ->
                << IF prevY > 0 THEN prevX + 1 ELSE prevX, prevY + 1 >>
          [] mod(angleMetric + 120, 360) = 0 ->
                << IF prevY <= 0 THEN prevX - 1 ELSE prevX, prevY + 1 >>
          [] mod(angleMetric + 240, 360) = 0 ->
                << IF prevY <= 0 THEN prevX - 1 ELSE prevX, prevY - 1 >>
          [] mod(angleMetric + 300, 360) = 0 ->
                << IF prevY > 0 THEN prevX + 1 ELSE prevX, prevY - 1 >>
          [] OTHER -> << prevX, prevY >>

\* The tile the move table of moveRabbitUponSpacebar steps to
MoveTarget(prevX, prevY, angleMetric) ==
    IF mod(angleMetric, 360) = 0 THEN << prevX + 1, prevY >>
    ELSE IF mod(angleMetric + 180, 360) = 0 THEN << prevX - 1, prevY >>
    ELSE IF mod(prevY, 2) = 0 THEN
        CASE mod(angleMetric + 60, 360) = 0 ->
                << IF prevY < 0 THEN prevX + 1 ELSE prevX, prevY + 1 >>
          [] mod(angleMetric + 120, 360) = 0 ->
                << IF prevY >= 0 THEN prevX - 1 ELSE prevX, prevY + 1 >>
          [] mod(angleMetric + 240, 360) = 0 ->
                << IF prevY > 0 THEN prevX - 1 ELSE prevX, prevY - 1 >>
          [] mod(angleMetric + 300, 360) = 0 ->
                << IF prevY <= 0 THEN prevX + 1 ELSE prevX, prevY - 1 >>
          [] OTHER -> << prevX, prevY >>
    ELSE
        CASE mod(angleMetric + 60, 360) = 0 ->
                << IF prevY > 0 THEN prevX + 1 ELSE prevX, prevY + 1 >>
          [] mod(angleMetric + 120, 360) = 0 ->
                << IF prevY <= 0 THEN prevX - 1 ELSE prevX, prevY + 1 >>
          [] mod(angleMetric + 240, 360) = 0 ->
                << IF prevY <= 0 THEN prevX - 1 ELSE prevX, prevY - 1 >>
          [] mod(angleMetric + 300, 360) = 0 ->
                << IF prevY > 0 THEN prevX + 1 ELSE prevX, prevY - 1 >>
          [] OTHER -> << prevX, prevY >>

\* for (babyRabbit of babyRabbits) if (same tile) { babiesLeft--; updateScore(1); ... }
RECURSIVE BabiesFrom(_, _, _, _)
BabiesFrom(babies, n, turn, g) ==
    IF n > Len(babies) THEN g
    ELSE IF babies[n].tileX = g.rabbit.tileX /\ babies[n].tileY = g.rabbit.tileY
         THEN BabiesFrom(babies, n + 1, turn,
                  [ g EXCEPT !.babiesLeft = @ - 1,
                             !.score = updateScore(1, turn, @),
                             !.status = StatusBabyLocated,
                             !.collected = @ \cup { n } ])
         ELSE BabiesFrom(babies, n + 1, turn, g)

updateBabyRabbits(babies, turn, g) == BabiesFrom(babies, 1, turn, g)

\* What the rejected branch leaves in the rabbit's tile fields
RejectMove(rabbit, prevX, prevY) ==
    [ rabbit EXCEPT !.tileX = prevX, !.tileY = prevY ]

moveRabbitUponSpacebar(key, ht, babies, turn, g) ==
    IF key # " " THEN g ELSE
    LET prevX == g.rabbit.tileX
        prevY == g.rabbit.tileY
        t == MoveTarget(prevX, prevY, g.rabbit.angleMetric)
        stepped == [ g.rabbit EXCEPT !.tileX = t[1], !.tileY = t[2] ]
        tilePosition == DictGet(XYto1D(stepped.tileX, stepped.tileY))
    IN  IF ~checkValidTile(ht, tilePosition)
        THEN [ g EXCEPT !.rabbit = RejectMove(stepped, prevX, prevY),
                        !.status = StatusCantGo,
                        !.moved = "rejected" ]
        ELSE LET g1 == [ g EXCEPT
                           !.rabbit = [ stepped EXCEPT
                               !.tween = StartTween(g.rabbit.position, tilePosition) ],
                           !.status = StatusDoingGreat,
                           !.moved = "accepted" ]
                 g2 == IF turn % 4 = 0
                       THEN [ g1 EXCEPT !.score = updateScore(2, turn, @) ]
                       ELSE g1
             IN  updateBabyRabbits(babies, turn, g2)

(***************************************************************************)
(* Predators                                                               *)
(***************************************************************************)
\* Variant: no test for an undefined choice, the predator jumps on the spot
MoveToUnguarded(a, closestAdjacentTile) ==
    IF closestAdjacentTile = << >>
    THEN [ a EXCEPT !.tween = StartTween(a.position, a.position[1]) ]
    ELSE LET xy == oneDtoXY(closestAdjacentTile[1]) IN
         [ a EXCEPT !.tileX = xy[1], !.tileY = xy[2],
                    !.tween = StartTween(a.position,
                                         DictGet(closestAdjacentTile[1])) ]

\* One iteration of the loop of updateFoxes / updateBears, for the pursuit
\* choice closestAdjacentTile
MoveTo(a, closestAdjacentTile) ==
    IF closestAdjacentTile = << >> THEN a
    ELSE IF DictGet(closestAdjacentTile[1]) = Undefined THEN a
    ELSE LET xy == oneDtoXY(closestAdjacentTile[1]) IN
         [ a EXCEPT !.tileX = xy[1], !.tileY = xy[2],
                    !.tween = StartTween(a.position,
                                         DictGet(closestAdjacentTile[1])) ]

\* The outcomes of one iteration
MovePredator(ht, rabbit, a) ==
    LET allAdjacent == getAllAdjacentTiles(ht, a.tileX, a.tileY) IN
    { MoveTo(a, c) :
        c \in getClosestAdjacentTileToRabbit(allAdjacent, rabbit.tileX, rabbit.tileY) }

\* The arrays the loop over the predators can leave
MoveAll(ht, rabbit, predators) ==
    { moved \in [ 1..Len(predators) ->
                    UNION { MovePredator(ht, rabbit, predators[i]) :
                              i \in 1..Len(predators) } ] :
        \A i \in 1..Len(predators) :
            moved[i] \in MovePredator(ht, rabbit, predators[i]) }

updateFoxes(ht, rabbit, fs) == MoveAll(ht, rabbit, fs)

updateBears(ht, rabbit, bs) == MoveAll(ht, rabbit, bs)

(***************************************************************************)
(* Collision check                                                         *)
(***************************************************************************)
\* position.x == other.position.x && position.z == other.position.z
SamePosition(a, b) == a.position = b.position

RECURSIVE CollideFrom(_, _, _, _, _, _)
CollideFrom(predators, n, livesType, scoreType, turn, g) ==
    IF n > Len(predators) THEN g
    ELSE IF SamePosition(g.rabbit, predators[n])
         THEN LET g1 == updateLives(livesType, g)
                  g2 == [ g1 EXCEPT !.score = updateScore(scoreType, turn, @),
                                    !.hits[livesType] = @ + 1 ]
              IN  CollideFrom(predators, n + 1, livesType, scoreType, turn, g2)
         ELSE CollideFrom(predators, n + 1, livesType, scoreType, turn, g)

checkCollisions(fs, bs, star, turn, g) ==
    LET g1 == CollideFrom(fs, 1, 2, -1, turn, g)
        g2 == CollideFrom(bs, 1, 4, -2, turn, g1)
    IN  IF star = Undefined
        THEN [ g2 EXCEPT !.thrown = "globalStar" ]
        ELSE IF SamePosition(g2.rabbit, star)
        THEN endGame(1, [ g2 EXCEPT !.score = updateScore(10, turn, @) ])
        ELSE g2

(***************************************************************************)
(* Scene construction                                                      *)
(***************************************************************************)
\* Math.floor(MAX_DISTANCE_THRESHOLD * Math.random() - MAX_DISTANCE_THRESHOLD / 2)
\* for Math.random() in [0, 1)
SampleRange ==
    ( - ((MAX_DISTANCE_THRESHOLD + 1) \div 2) ) .. ( (MAX_DISTANCE_THRESHOLD + 1) \div 2 - 1 )

\* No getRandomValidTile call is being followed
NoSample == [ pc |-> "idle", i |-> 0, j |-> 0 ]

\* The (i, j) pairs Math.random yields in getRandomValidTile, per call site
StarDraws == { << 0, 0 >>, << 1, -1 >>, << -1, 0 >>, << -2, -2 >> }
FoxDraws == { << 0, 0 >>, << 1, -1 >>, << -1, 0 >> }
BearDraws == { << 0, 0 >>, << -1, 0 >>, << -2, 0 >> }
BabyDraws == { << 1, -1 >>, << -1, 0 >>, << -2, -2 >> }

\* The tiles whose noise is above WATER_HEIGHT: the start tile with five of
\* its neighbours, and the rim tile (-2, 0), which water cuts off from them
Land ==
    { << 0, 0 >>, << 1, 0 >>, << 0, 1 >>, << -1, 1 >>, << 0, -1 >>, << 1, -1 >>,
      << -2, 0 >> }

\* The tiles whose noise is at most WATER_HEIGHT
WaterTiles == { tileToPosition(t[1], t[2]) : t \in Tiles \ Land }

\* The tiles getRandomValidTile can return: a draw that is off the terrain
\* or not valid is drawn again
getRandomValidTile(ht, draws) ==
    { t \in draws :
        /\ DictGet(XYto1D(t[1], t[2])) # Undefined
        /\ checkValidTile(ht, DictGet(XYto1D(t[1], t[2]))) }

\* An animal as its load callback leaves it: translated to the tile's
\* translation vector, tileX / tileY set
SpawnAt(t) ==
    [ tileX |-> t[1], tileY |-> t[2],
      position |-> << DictGet(XYto1D(t[1], t[2])) >>,
      tween |-> NoTween ]

\* hardTerrain as the generation loop leaves it
GeneratedTerrain == [ p \in Positions |-> IF p \in WaterTiles THEN 1 ELSE 0 ]

\* positionToHexDict as the generation loop leaves it: hex() stores
\* Vector3(tilePosition.x, height, tilePosition.y) for every tile
GeneratedHexDict ==
    [ p \in Positions |-> [ x |-> p[1], y |-> 0, z |-> p[2] ] ]

\* lastTurn before the first spacebar turn
NoTurn ==
    [ n |-> 0, moved |-> "none", moveScore |-> 0, moveStatus |-> << "" >>,
      won |-> FALSE, lost |-> FALSE, foxHits |-> 0, bearHits |-> 0 ]

\* The state once buildScene has run, every asset load has resolved and the
\* start button has hidden the overlay
Init ==
    /\ hardTerrain = GeneratedTerrain
    /\ globalRabbit = [ tileX |-> 0, tileY |-> 0, angleMetric |-> 60,
                        position |-> << DictGet(XYto1D(0, 0)) >>,
                        tween |-> NoTween ]
    /\ \E t \in getRandomValidTile(hardTerrain, StarDraws) :
           globalStar = [ tileX |-> t[1], tileY |-> t[2],
                          position |-> SpawnAt(t).position ]
    /\ foxes \in [ 1..FOXES_NUM ->
                    { SpawnAt(t) : t \in getRandomValidTile(hardTerrain, FoxDraws) } ]
    /\ bears \in [ 1..BEARS_NUM ->
                    { SpawnAt(t) : t \in getRandomValidTile(hardTerrain, BearDraws) } ]
    /\ babyRabbits \in [ 1..BABYRABBITS_NUM ->
                    { [ tileX |-> t[1], tileY |-> t[2] ] :
                          t \in getRandomValidTile(hardTerrain, BabyDraws) } ]
    /\ lives = InitialLives
    /\ turnNumber = 0
    /\ score = 0
    /\ babiesLeft = BABYRABBITS_NUM
    /\ status = << "" >>
    /\ overlay = [ display |-> "none", background |-> "" ]
    /\ collected = { }
    /\ lastTurn = NoTurn
    /\ built = TRUE
    /\ pending = { }
    /\ positionToHexDict = GeneratedHexDict
    /\ startButton = "none"
    /\ sampler = NoSample
    /\ thrown = ""
    /\ pToggle = 0
    /\ mToggle = 0
    /\ labels = { }
    /\ foxLabels = << >>

(***************************************************************************)
(* Keydown handler                                                         *)
(***************************************************************************)
Keys == { "ArrowLeft", "ArrowRight", " ", "a" }

updateRabbitPerspective(key, rabbit) ==
    IF key = "ArrowLeft"
    THEN [ rabbit EXCEPT !.angleMetric = mod(@ + 60, 360) ]
    ELSE IF key = "ArrowRight"
    THEN [ rabbit EXCEPT !.angleMetric = mod(@ - 60, 360) ]
    ELSE rabbit

\* Variants of the turn increment: only for an accepted move; once more
\* inside an accepted move
TurnOnlyWhenAccepted(turn, moved) == IF moved = "accepted" THEN turn + 1 ELSE turn

TurnTwiceWhenAccepted(turn, moved) == IF moved = "accepted" THEN turn + 2 ELSE turn + 1

\* turnNumber++ after the move, whatever the move did
TurnAfterMove(turn, moved) == turn + 1

FoxesTurn(turn) == turn % 2 = 0

\* Variant: the bears keep the foxes' cadence
BearsTurnLikeFoxes(turn) == turn % 2 = 0

BearsTurn(turn) == turn % 3 = 0

\* if (keyState == " ") { ... }
SpaceTurn(rabbit) ==
    LET g0 == [ rabbit |-> rabbit, lives |-> lives, score |-> score,
                babiesLeft |-> babiesLeft, status |-> status,
                overlay |-> overlay, collected |-> collected,
                moved |-> "none", won |-> FALSE, lost |-> FALSE,
                hits |-> [ t \in { 2, 4 } |-> 0 ], thrown |-> "" ]
    IN
    \E g1 \in { moveRabbitUponSpacebar(" ", hardTerrain, babyRabbits, turnNumber, g0) } :
    \E turn \in { TurnAfterMove(turnNumber, g1.moved) } :
    \E fs \in ( IF FoxesTurn(turn) THEN updateFoxes(hardTerrain, g1.rabbit, foxes)
                                   ELSE { foxes } ) :
    \E bs \in ( IF BearsTurn(turn) THEN updateBears(hardTerrain, g1.rabbit, bears)
                                   ELSE { bears } ) :
    \E g2 \in { checkCollisions(fs, bs, globalStar, turn, g1) } :
        /\ globalRabbit' = g2.rabbit
        /\ turnNumber' = turn
        /\ foxes' = fs
        /\ bears' = bs
        /\ lives' = g2.lives
        /\ score' = g2.score
        /\ babiesLeft' = g2.babiesLeft
        /\ status' = g2.status
        /\ overlay' = g2.overlay
        /\ collected' = g2.collected
        /\ thrown' = g2.thrown
        /\ lastTurn' = [ n |-> lastTurn.n + 1, moved |-> g2.moved,
                         moveScore |-> g1.score - score,
                         moveStatus |-> g1.status,
                         won |-> g2.won, lost |-> g2.lost,
                         foxHits |-> g2.hits[2], bearHits |-> g2.hits[4] ]

\* The markers' tiles: every fox's adjacent tiles, fox after fox
RECURSIVE FoxAdjacentTiles(_, _, _)
FoxAdjacentTiles(ht, fxs, n) ==
    IF n > Len(fxs) THEN << >>
    ELSE getAllAdjacentTiles(ht, fxs[n].tileX, fxs[n].tileY)
             \o FoxAdjacentTiles(ht, fxs, n + 1)

\* sphereLocation is the Vector3 the map stores, not a copy of it: the
\* += 1 is a write to the stored vector
RECURSIVE MarkFrom(_, _, _)
MarkFrom(tileIndices, n, d) ==
    IF n > Len(tileIndices) THEN d
    ELSE LET tilePosition == DictGet(tileIndices[n][1])
             sphereLocation == [ d.positionToHexDict[tilePosition] EXCEPT !.y = @ + 1 ]
         IN  MarkFrom(tileIndices, n + 1,
                 [ d EXCEPT !.positionToHexDict[tilePosition] = sphereLocation,
                            !.foxLabels = Append(@, sphereLocation) ])

\* The marker colour (closest tile or not) is not kept
mapFoxAdjacentTiles(ht, fxs, d) ==
    MarkFrom(FoxAdjacentTiles(ht, fxs, 1), 1,
        [ d EXCEPT !.pToggle = 1, !.foxLabels = << >> ])

\* A press with the labels shown removes them; mToggle = 0 is inside the
\* loop over the labels
mapHexCoords(d) ==
    IF d.mToggle = 0
    THEN [ d EXCEPT !.mToggle = 1,
                    !.labels = @ \cup { << index,
                                            d.positionToHexDict[XYtoPositionDict[index]].y + 1 >> :
                                         index \in DOMAIN XYtoPositionDict } ]
    ELSE [ d EXCEPT !.mToggle = IF d.labels = { } THEN @ ELSE 0,
                    !.labels = { } ]

DebugKey(key, ht, fxs, d) ==
    IF key = "p" THEN mapFoxAdjacentTiles(ht, fxs, d)
    ELSE IF key = "m" THEN mapHexCoords(d)
    ELSE d

\* keyState is written first and only read later in the same handler, so
\* it is the handler's input here.  updateRabbitPerspective reads
\* globalRabbit.tileX first: while globalRabbit is undefined the handler
\* ends there with a TypeError
KeyDown(key) ==
    IF globalRabbit = Undefined
    THEN /\ thrown' = "globalRabbit"
         /\ UNCHANGED << hardTerrain, globalRabbit, globalStar, foxes, bears,
                         babyRabbits, lives, turnNumber, score, babiesLeft,
                         status, overlay, collected, lastTurn, loadVars,
                         debugVars >>
    ELSE /\ IF key = " "
            THEN /\ turnNumber < MaxTurn
                 /\ SpaceTurn(updateRabbitPerspective(key, globalRabbit))
            ELSE /\ globalRabbit' = updateRabbitPerspective(key, globalRabbit)
                 /\ thrown' = ""
                 /\ UNCHANGED << foxes, bears, lives, turnNumber, score,
                                 babiesLeft, status, overlay, collected,
                                 lastTurn >>
         /\ key = "p" =>
                \A p \in DOMAIN positionToHexDict : positionToHexDict[p].y < MaxRaise
         /\ \E d \in { DebugKey(key, hardTerrain, foxes,
                            [ positionToHexDict |-> positionToHexDict,
                              pToggle |-> pToggle, mToggle |-> mToggle,
                              labels |-> labels, foxLabels |-> foxLabels ]) } :
                /\ positionToHexDict' = d.positionToHexDict
                /\ pToggle' = d.pToggle
                /\ mToggle' = d.mToggle
                /\ labels' = d.labels
                /\ foxLabels' = d.foxLabels
         /\ UNCHANGED << hardTerrain, globalStar, babyRabbits, loadVars >>

(***************************************************************************)
(* Animation frame: TWEEN.update()                                         *)
(***************************************************************************)
\* A frame either finds the running jumps in flight or finds them finished
AdvanceTween(a, finished) ==
    IF a.tween.end = << >> THEN a
    ELSE IF finished THEN [ a EXCEPT !.position = a.tween.end, !.tween = NoTween ]
    ELSE [ a EXCEPT !.position = a.tween.mid ]

animateScene(finished) ==
    /\ globalRabbit' = IF globalRabbit = Undefined THEN globalRabbit
                       ELSE AdvanceTween(globalRabbit, finished)
    /\ foxes' = [ i \in 1..Len(foxes) |-> AdvanceTween(foxes[i], finished) ]
    /\ bears' = [ i \in 1..Len(bears) |-> AdvanceTween(bears[i], finished) ]
    /\ UNCHANGED << hardTerrain, globalStar, babyRabbits, lives,
                    turnNumber, score, babiesLeft, status, overlay, collected,
                    lastTurn, thrown, loadVars, debugVars >>

Next ==
    \/ \E key \in Keys : KeyDown(key)
    \/ \E finished \in BOOLEAN : animateScene(finished)

Spec == Init /\ [][Next]_vars

(***************************************************************************)
(* The resolver and the pursuit choice on their own: the registry, the     *)
(* predator's tile and the player's tile are drawn from bounded sets and   *)
(* the predator update is applied to them.                                 *)
(***************************************************************************)
\* The tiles one hex away from the tile at position p
Ring(p) ==
    { q \in Positions : DistanceSq(p, q) > 0 /\ DistanceSq(p, q) < 2000 * 2000 }

\* Sets of impassable tiles (water, rocks): none, one tile, or every tile
\* around the start tile or around one of its neighbours
HardSets ==
    { { } } \cup { { p } : p \in Positions }
        \cup { Ring(p) : p \in { << 0, 0 >> } \cup Ring(<< 0, 0 >>) }

Terrains == { [ p \in Positions |-> IF p \in H THEN 1 ELSE 0 ] : H \in HardSets }

InitPursuit ==
    \E r \in Tiles, a \in Tiles :
    /\ hardTerrain \in Terrains
    /\ globalRabbit = [ tileX |-> r[1], tileY |-> r[2], angleMetric |-> 60,
                        position |-> SpawnAt(r).position, tween |-> NoTween ]
    /\ globalStar = [ tileX |-> 0, tileY |-> 0, position |-> SpawnAt(<< 0, 0 >>).position ]
    /\ foxes = << SpawnAt(a) >>
    /\ bears = << >>
    /\ babyRabbits = << >>
    /\ lives = InitialLives
    /\ turnNumber = 0
    /\ score = 0
    /\ babiesLeft = 0
    /\ status = << "" >>
    /\ overlay = [ display |-> "none", background |-> "" ]
    /\ collected = { }
    /\ lastTurn = NoTurn
    /\ built = TRUE
    /\ pending = { }
    /\ positionToHexDict = GeneratedHexDict
    /\ startButton = "none"
    /\ sampler = NoSample
    /\ thrown = ""
    /\ pToggle = 0
    /\ mToggle = 0
    /\ labels = { }
    /\ foxLabels = << >>

\* updateFoxes() applied to the drawn position
Pursue ==
    /\ foxes' \in updateFoxes(hardTerrain, globalRabbit, foxes)
    /\ UNCHANGED << hardTerrain, globalRabbit, globalStar, bears, babyRabbits,
                    lives, turnNumber, score, babiesLeft, status, overlay,
                    collected, lastTurn, thrown, loadVars, debugVars >>

NextPursuit == Pursue

SpecPursuit == InitPursuit /\ [][NextPursuit]_vars

(***************************************************************************)
(* Startup: initListeners() registers the keydown and click handlers, then *)
(* buildScene() runs up to its first await.  The terrain is generated when *)
(* the awaited textures are there; each loadAsset(...).then callback runs  *)
(* when its asset is there, in any order, between key events and frames    *)
(* (the frames that find the running jumps finished).                      *)
(***************************************************************************)
\* Largest turnNumber the keydown handler reaches while the scene is built
MaxStartupTurn == 1

\* The key pressed while the scene is being built
StartupKeys == { " " }

\* The tiles for which Math.random passes the rock / tree threshold of
\* their height band
RockDraws == { tileToPosition(0, 1), tileToPosition(1, -1) }

\* if (checkValidTile(tilePosition) && (tilePosition.x != 0 && tilePosition.y != 0))
RockTiles(ht) ==
    { p \in RockDraws : checkValidTile(ht, p) /\ p[1] # 0 /\ p[2] # 0 }

Load(kind, i, at) == [ kind |-> kind, i |-> i, at |-> at ]

\* The state after initScene(); initLights(); initListeners(); buildScene()
\* up to its first await
InitStartup ==
    /\ hardTerrain = << >>
    /\ globalRabbit = Undefined
    /\ globalStar = Undefined
    /\ foxes = << >>
    /\ bears = << >>
    /\ babyRabbits = << >>
    /\ lives = InitialLives
    /\ turnNumber = 0
    /\ score = 0
    /\ babiesLeft = BABYRABBITS_NUM
    /\ status = << "" >>
    /\ overlay = [ display |-> "", background |-> "" ]
    /\ collected = { }
    /\ lastTurn = NoTurn
    /\ built = FALSE
    /\ pending = { }
    /\ positionToHexDict = << >>
    /\ startButton = ""
    /\ sampler = NoSample
    /\ thrown = ""
    /\ pToggle = 0
    /\ mToggle = 0
    /\ labels = { }
    /\ foxLabels = << >>

\* buildScene() from the generation loop to its end: the maps are filled,
\* the rock and tree loads are started by hex(), then the actor loads; the
\* generate* functions draw their tile here, before the load
buildScene ==
    /\ ~ built
    /\ built' = TRUE
    /\ hardTerrain' = GeneratedTerrain
    /\ positionToHexDict' = GeneratedHexDict
    /\ \E rocks \in SUBSET RockTiles(GeneratedTerrain) :
       \E baby \in [ 1..BABYRABBITS_NUM -> getRandomValidTile(GeneratedTerrain, BabyDraws) ] :
       \E bear \in [ 1..BEARS_NUM -> getRandomValidTile(GeneratedTerrain, BearDraws) ] :
       \E fox \in [ 1..FOXES_NUM -> getRandomValidTile(GeneratedTerrain, FoxDraws) ] :
           pending' = { Load("rock", 0, p) : p \in rocks }
                      \cup { Load("rabbit", 0, << 0, 0 >>), Load("star", 0, << >>) }
                      \cup { Load("baby", i, baby[i]) : i \in 1..BABYRABBITS_NUM }
                      \cup { Load("bear", i, bear[i]) : i \in 1..BEARS_NUM }
                      \cup { Load("fox", i, fox[i]) : i \in 1..FOXES_NUM }
    /\ UNCHANGED << globalRabbit, globalStar, foxes, bears, babyRabbits, lives,
                    turnNumber, score, babiesLeft, status, overlay, collected,
                    lastTurn, startButton, sampler, thrown, pToggle, mToggle, labels,
                    foxLabels >>

\* hardTerrain.set(tilePosition, 1) in the rock / tree callback
RockClaims(ht, tilePosition) == [ ht EXCEPT ![tilePosition] = 1 ]

\* Variant: an animal's callback clears the flag of its spawn tile
TerrainAfterLoadClearsSpawn(ht, l) ==
    IF l.kind = "rock" THEN RockClaims(ht, l.at)
    ELSE IF l.kind \in { "baby", "bear", "fox" }
    THEN [ ht EXCEPT ![DictGet(XYto1D(l.at[1], l.at[2]))] = 0 ]
    ELSE ht

\* Only the rock and tree callbacks write hardTerrain
TerrainAfterLoad(ht, l) ==
    IF l.kind = "rock" THEN RockClaims(ht, l.at) ELSE ht

\* One loadAsset(...).then callback
LoadCallback(l) ==
    /\ l \in pending
    /\ pending' = pending \ { l }
    /\ hardTerrain' = TerrainAfterLoad(hardTerrain, l)
    /\ globalRabbit' =
           IF l.kind = "rabbit"
           THEN [ tileX |-> 0, tileY |-> 0, angleMetric |-> 60,
                  position |-> << DictGet(XYto1D(0, 0)) >>, tween |-> NoTween ]
           ELSE globalRabbit
    /\ IF l.kind = "star"
       THEN \E t \in getRandomValidTile(hardTerrain, StarDraws) :
                globalStar' = [ tileX |-> t[1], tileY |-> t[2],
                                position |-> SpawnAt(t).position ]
       ELSE UNCHANGED globalStar
    /\ babyRabbits' =
           IF l.kind = "baby"
           THEN Append(babyRabbits, [ tileX |-> l.at[1], tileY |-> l.at[2] ])
           ELSE babyRabbits
    /\ bears' = IF l.kind = "bear" THEN Append(bears, SpawnAt(l.at)) ELSE bears
    /\ foxes' = IF l.kind = "fox" THEN Append(foxes, SpawnAt(l.at)) ELSE foxes
    /\ UNCHANGED << lives, turnNumber, score, babiesLeft, status, overlay,
                    collected, lastTurn, built, startButton, sampler, thrown,
                    debugVars >>

\* The click handler of the start button
StartClick ==
    /\ startButton = ""
    /\ startButton' = "none"
    /\ overlay' = [ overlay EXCEPT !.display = "none" ]
    /\ UNCHANGED << hardTerrain, globalRabbit, globalStar, foxes, bears,
                    babyRabbits, lives, turnNumber, score, babiesLeft, status,
                    collected, lastTurn, built, pending, sampler, thrown,
                    debugVars >>

NextStartup ==
    \/ buildScene
    \/ \E l \in pending : LoadCallback(l)
    \/ StartClick
    \/ \E key \in StartupKeys :
           /\ key = " " => turnNumber < MaxStartupTurn
           /\ KeyDown(key)
    \/ animateScene(TRUE)

SpecStartup == InitStartup /\ [][NextStartup]_vars

(***************************************************************************)
(* The debug keys, pressed during the game                                 *)
(***************************************************************************)
\* Largest turnNumber the keydown handler reaches between debug keys
MaxDebugTurn == 2

DebugKeys == { "p", "m", " " }

NextDebug ==
    \/ \E key \in DebugKeys :
           /\ key = " " => turnNumber < MaxDebugTurn
           /\ KeyDown(key)
    \/ animateScene(TRUE)

SpecDebug == Init /\ [][NextDebug]_vars

(***************************************************************************)
(* The player's move on its own: the registry, the player's tile and the   *)
(* facing angle are drawn from bounded sets and the spacebar is pressed.   *)
(***************************************************************************)
\* Largest turnNumber the keydown handler reaches from the drawn position
MaxMoveTurn == 1

\* The values angleMetric takes: 60 at the start, then steps of 60 mod 360
Angles == { 0, 60, 120, 180, 240, 300 }

InitMove ==
    \E r \in Tiles, angle \in Angles :
    /\ hardTerrain \in Terrains
    /\ globalRabbit = [ tileX |-> r[1], tileY |-> r[2], angleMetric |-> angle,
                        position |-> SpawnAt(r).position, tween |-> NoTween ]
    /\ globalStar = [ tileX |-> 0, tileY |-> 0, position |-> SpawnAt(<< 0, 0 >>).position ]
    /\ foxes = << >>
    /\ bears = << >>
    /\ babyRabbits = << >>
    /\ lives = InitialLives
    /\ turnNumber = 0
    /\ score = 0
    /\ babiesLeft = 0
    /\ status = << "" >>
    /\ overlay = [ display |-> "none", background |-> "" ]
    /\ collected = { }
    /\ lastTurn = NoTurn
    /\ built = TRUE
    /\ pending = { }
    /\ positionToHexDict = GeneratedHexDict
    /\ startButton = "none"
    /\ sampler = NoSample
    /\ thrown = ""
    /\ pToggle = 0
    /\ mToggle = 0
    /\ labels = { }
    /\ foxLabels = << >>

NextMove == turnNumber < MaxMoveTurn /\ KeyDown(" ")

SpecMove == InitMove /\ [][NextMove]_vars

(***************************************************************************)
(* getRandomValidTile on its own: one call, followed pass by pass of its   *)
(* while (true) loop, on a terrain drawn from a bounded set.               *)
(***************************************************************************)
\* The terrains of the game and of the pursuit, and those where water and
\* rocks leave a single passable tile
SpawnTerrains ==
    { GeneratedTerrain } \cup Terrains
        \cup { [ p \in Positions |-> IF p = q THEN 0 ELSE 1 ] : q \in Positions }

InitSpawn ==
    /\ hardTerrain \in SpawnTerrains
    /\ globalRabbit = Undefined
    /\ globalStar = Undefined
    /\ foxes = << >>
    /\ bears = << >>
    /\ babyRabbits = << >>
    /\ lives = InitialLives
    /\ turnNumber = 0
    /\ score = 0
    /\ babiesLeft = BABYRABBITS_NUM
    /\ status = << "" >>
    /\ overlay = [ display |-> "", background |-> "" ]
    /\ collected = { }
    /\ lastTurn = NoTurn
    /\ built = TRUE
    /\ pending = { }
    /\ positionToHexDict = GeneratedHexDict
    /\ startButton = ""
    /\ sampler = [ pc |-> "called", i |-> 0, j |-> 0 ]
    /\ thrown = ""
    /\ pToggle = 0
    /\ mToggle = 0
    /\ labels = { }
    /\ foxLabels = << >>

\* One pass of the loop with the pair (i, j) drawn: continue when the pair
\* is off the terrain or not valid, return otherwise
Sample(i, j) ==
    /\ sampler.pc \in { "called", "draw" }
    /\ \E tilePosition \in { DictGet(XYto1D(i, j)) } :
           sampler' = [ pc |-> IF tilePosition = Undefined THEN "draw"
                              ELSE IF ~ checkValidTile(hardTerrain, tilePosition) THEN "draw"
                              ELSE "returned",
                        i |-> i, j |-> j ]
    /\ UNCHANGED << hardTerrain, globalRabbit, globalStar, foxes, bears,
                    babyRabbits, lives, turnNumber, score, babiesLeft, status,
                    overlay, collected, lastTurn, built, pending, startButton,
                    thrown, debugVars >>

NextSpawn == \E i \in SampleRange, j \in SampleRange : Sample(i, j)

\* Fair random draws: a pair that keeps being possible is drawn in the end
SpecSpawn ==
    /\ InitSpawn
    /\ [][NextSpawn]_vars
    /\ \A i \in SampleRange, j \in SampleRange : WF_vars(Sample(i, j))

(***************************************************************************)
(* Properties                                                              *)
(***************************************************************************)
TilesOf(actors) ==
    [ i \in 1..Len(actors) |-> << actors[i].tileX, actors[i].tileY >> ]

RabbitTile == << globalRabbit.tileX, globalRabbit.tileY >>

StarTile == << globalStar.tileX, globalStar.tileY >>

\* The step handles a spacebar keydown
SpaceStep == lastTurn'.n # lastTurn.n

\* The tile in the facing direction is off the map or impassable
TargetBlocked ==
    LET t == MoveTarget(globalRabbit.tileX, globalRabbit.tileY,
                        globalRabbit.angleMetric)
    IN  t \notin Tiles \/ hardTerrain[tileToPosition(t[1], t[2])] = 1

OnRabbitTile(actors) ==
    Cardinality({ i \in 1..Len(actors) :
                    << actors[i].tileX, actors[i].tileY >> = RabbitTile })

\* C1 (as claimed): once the end screen is shown, no step changes
\* turnNumber, score, lives, babiesLeft or the tile of the player or of a
\* predator.
C1_TerminalLock ==
    [][ overlay.display = "block" =>
          /\ turnNumber' = turnNumber
          /\ score' = score
          /\ lives' = lives
          /\ babiesLeft' = babiesLeft
          /\ RabbitTile' = RabbitTile
          /\ TilesOf(foxes)' = TilesOf(foxes)
          /\ TilesOf(bears)' = TilesOf(bears) ]_vars

C3_RejectedMoveLeavesPlayer ==
    [][ (SpaceStep /\ TargetBlocked) =>
          /\ lastTurn'.moved = "rejected"
          /\ RabbitTile' = RabbitTile
          /\ globalRabbit'.position = globalRabbit.position
          /\ globalRabbit'.tween = globalRabbit.tween
          /\ lastTurn'.moveScore = 0
          /\ babiesLeft' = babiesLeft
          /\ collected' = collected
          /\ lastTurn'.moveStatus = StatusCantGo ]_vars

\* The first turn (turnNumber 0, a survival point is due) rejected at the
\* water tile next to the start tile
C3_Witness ==
    /\ lastTurn.n = 1
    /\ lastTurn.moved = "rejected"
    /\ lastTurn.moveStatus = StatusCantGo
    /\ RabbitTile = << 0, 0 >>
    /\ globalRabbit.angleMetric = 180

\* C4: turnNumber never decreases, and a spacebar turn whose move is
\* accepted raises it by exactly 1.
C4_TurnMonotone ==
    [][ /\ turnNumber' >= turnNumber
        /\ (SpaceStep /\ ~TargetBlocked) =>
              (lastTurn'.moved = "accepted" /\ turnNumber' = turnNumber + 1) ]_vars

\* Two accepted moves in a row
C4_Witness ==
    /\ lastTurn.moved = "accepted"
    /\ turnNumber >= 2
    /\ RabbitTile # << 0, 0 >>

\* C5 (as claimed): in a turn's collision resolution the fox (bear) penalty
\* is applied once for each fox (bear) whose tile equals the player's tile
\* and for no other.
C5_CollisionByTile ==
    lastTurn.n > 0 =>
        /\ lastTurn.foxHits = OnRabbitTile(foxes)
        /\ lastTurn.bearHits = OnRabbitTile(bears)

\* C6 (as claimed): a turn declares the game won exactly when it ends with
\* the player's tile equal to the goal star's tile.
C6_WonIffOnGoalTile ==
    lastTurn.n > 0 => (lastTurn.won <=> RabbitTile = StarTile)

\* C7 (as claimed): a turn in which the game is declared lost ends with the
\* loss on the end screen.
C7_LossTakesPrecedence ==
    lastTurn.lost => status = StatusDied

\* C8 (as claimed): lives and turnNumber are never negative.
C8_LivesNonNegative ==
    lives >= 0 /\ turnNumber >= 0

\* C8 (amended): turnNumber is a natural number; lives is an integer that
\* never exceeds its initial value and falls by at most 2 per fox and 4 per
\* bear in each turn, so it can go below 0.
C8_LivesBounded ==
    /\ turnNumber \in Nat
    /\ lives \in Int
    /\ lives <= InitialLives
    /\ lives >= InitialLives - turnNumber * (2 * Len(foxes) + 4 * Len(bears))

\* lives has gone below 0
C8_Witness ==
    lives < 0 /\ lastTurn.lost

\* C9 (as claimed): babiesLeft is BABYRABBITS_NUM minus the number of
\* distinct baby rabbits collected, and is never negative.
C9_BabiesCollectedOnce ==
    /\ babiesLeft = BABYRABBITS_NUM - Cardinality(collected)
    /\ babiesLeft >= 0

\* C10 (as claimed): a turn that declares the game won after every baby
\* rabbit has been collected has babiesLeft = 0 and shows the "all babies"
\* text.
C10_AllBabiesVariant ==
    (lastTurn.won /\ Cardinality(collected) = BABYRABBITS_NUM) =>
        (babiesLeft = 0 /\ status = StatusAllBabies)

(***************************************************************************)
(* Resolver properties (under SpecPursuit)                                 *)
(***************************************************************************)
Passable(t) == t \in Tiles /\ hardTerrain[tileToPosition(t[1], t[2])] # 1

FoxTile == << foxes[1].tileX, foxes[1].tileY >>

\* The [index, angle] entries getAllAdjacentTiles returns for tile t
Entries(t) ==
    LET all == getAllAdjacentTiles(hardTerrain, t[1], t[2])
    IN  { all[n] : n \in 1..Len(all) }

\* B is listed among A's neighbours under the label angle
Listed(A, B, angle) == << XYto1D(B[1], B[2]), angle >> \in Entries(A)

\* C11: for passable on-map tiles A (the predator's tile) and B (the
\* player's tile), B is listed among A's neighbours under a label exactly
\* when A is listed among B's neighbours under the label 180 degrees away.
C11_ReciprocalAdjacency ==
    (Passable(FoxTile) /\ Passable(RabbitTile)) =>
        LET ofFox == Entries(FoxTile)
            ofRabbit == Entries(RabbitTile)
        IN  \A n \in 1..Len(ResolverOrder) :
                << XYto1D(RabbitTile[1], RabbitTile[2]), ResolverOrder[n] >> \in ofFox
                    <=> << XYto1D(FoxTile[1], FoxTile[2]),
                           mod(ResolverOrder[n] + 180, 360) >> \in ofRabbit

\* An even row below y = 0: the predator has stepped onto (0, -2), whose
\* 300-degree neighbour (1, -1) lists it back under 120 degrees
C11_Witness ==
    /\ FoxTile = << 0, -2 >>
    /\ RabbitTile = << 1, -1 >>
    /\ Listed(FoxTile, RabbitTile, 300)
    /\ Listed(RabbitTile, FoxTile, 120)
    /\ foxes[1].tween # NoTween

\* What C12 asks of the list returned for the tile t
NeighbourListOK(t) ==
    LET all == getAllAdjacentTiles(hardTerrain, t[1], t[2]) IN
    /\ Len(all) \in 0..6
    /\ \A m, n \in 1..Len(all) : all[m][1] = all[n][1] => m = n
    /\ \A n \in 1..Len(all) :
           /\ all[n][1] \in DOMAIN XYtoPositionDict
           /\ hardTerrain[XYtoPositionDict[all[n][1]]] # 1

\* C12: for the predator's tile, the player's tile (each of them ranges
\* over the whole map under every terrain) and every coordinate beyond the
\* rim of the map next to the predator's tile, under the registry of the
\* state, getAllAdjacentTiles returns 0 to 6 entries, no tile twice, each
\* of them on the map and passable.
C12_NeighbourList ==
    /\ NeighbourListOK(FoxTile)
    /\ NeighbourListOK(RabbitTile)
    /\ \A n \in 1..Len(ResolverOrder) :
           LET c == AdjacentCandidate(FoxTile[1], FoxTile[2], ResolverOrder[n])
           IN  ~ InRadius(c[1], c[2]) => NeighbourListOK(c)

\* The predator has stepped onto (0, 0), whose six neighbours are on the
\* map and one of them, (1, 0), is impassable: five entries
C12_Witness ==
    /\ FoxTile = << 0, 0 >>
    /\ foxes[1].tween # NoTween
    /\ hardTerrain[tileToPosition(1, 0)] = 1
    /\ Len(getAllAdjacentTiles(hardTerrain, 0, 0)) = 5

(***************************************************************************)
(* Coordinate packing (under SpecPursuit)                                  *)
(***************************************************************************)
\* The tiles in the predator's row and in the predator's column, across the
\* whole range of the generation loop
FoxCross ==
    { << c, FoxTile[2] >> : c \in -LENGTH..LENGTH }
        \cup { << FoxTile[1], c >> : c \in -LENGTH..LENGTH }

\* C13: unpacking the key of a tile of the generation range gives the tile
\* back (checked for the player's tile and for every tile in the
\* predator's row and column), and none of these tiles shares its key with
\* the player's tile unless it is that tile.
C13_PackUnpack ==
    LET rabbitKey == XYto1D(RabbitTile[1], RabbitTile[2])
    IN  /\ oneDtoXY(rabbitKey) = RabbitTile
        /\ \A t \in FoxCross :
               LET key == XYto1D(t[1], t[2])
               IN  /\ oneDtoXY(key) = t
                   /\ key = rabbitKey => t = RabbitTile

\* The predator has arrived on a tile of a row and a column below zero by
\* the tile that updateFoxes unpacked from the chosen neighbour's key
C13_Witness ==
    /\ foxes[1].tween # NoTween
    /\ FoxTile = << -1, -2 >>
    /\ DictGet(XYto1D(-1, -2)) = foxes[1].tween.end[1]
    /\ RabbitTile # FoxTile

(***************************************************************************)
(* Pursuit choice (under SpecPursuit)                                      *)
(***************************************************************************)
\* Exact squared distance from the n-th listed neighbour to the player's tile
ToPlayer(all, n) ==
    DistanceSq(XYtoPositionDict[all[n][1]],
               tileToPosition(RabbitTile[1], RabbitTile[2]))

\* The listed neighbour at minimum distance, the first listed among equals
FirstClosest(all) ==
    all[CHOOSE n \in 1..Len(all) :
            /\ \A m \in 1..Len(all) : ToPlayer(all, m) >= ToPlayer(all, n)
            /\ \A m \in 1..(n - 1) : ToPlayer(all, m) > ToPlayer(all, n)]

\* C14 (as claimed): a predator with a non-empty neighbour list steps to
\* the neighbour at minimum Euclidean distance from the player's tile, and
\* among equally distant neighbours to the one the resolver lists first.
C14_PursuitChoice ==
    [][ LET all == getAllAdjacentTiles(hardTerrain, FoxTile[1], FoxTile[2]) IN
        all # << >> =>
            << foxes[1].tileX', foxes[1].tileY' >> = oneDtoXY(FirstClosest(all)[1])
      ]_vars

(***************************************************************************)
(* Turn cadence (under Spec)                                               *)
(***************************************************************************)
\* The predators of the array standing at the player's world position
AtRabbitPosition(actors) ==
    Cardinality({ i \in 1..Len(actors) : actors[i].position = globalRabbit.position })

\* C15: a spacebar turn raises turnNumber by one, then moves the foxes
\* (pursuit of the player's new tile) exactly when the new turnNumber is
\* divisible by 2 and the bears exactly when it is divisible by 3, and then
\* resolves collisions against the arrays so updated; no other step changes
\* a predator's tile.
C15_TurnCadence ==
    [][ /\ SpaceStep =>
            /\ turnNumber' = turnNumber + 1
            /\ foxes' \in ( IF turnNumber' % 2 = 0
                             THEN MoveAll(hardTerrain, globalRabbit', foxes)
                             ELSE { foxes } )
            /\ bears' \in ( IF turnNumber' % 3 = 0
                             THEN MoveAll(hardTerrain, globalRabbit', bears)
                             ELSE { bears } )
            /\ lastTurn'.foxHits = AtRabbitPosition(foxes)'
            /\ lastTurn'.bearHits = AtRabbitPosition(bears)'
        /\ ~SpaceStep =>
            /\ TilesOf(foxes)' = TilesOf(foxes)
            /\ TilesOf(bears)' = TilesOf(bears)
      ]_vars

\* Turn 3 is over: the fox has moved on turn 2 and the bear on turn 3, each
\* to another tile than the one it was spawned on
C15_Witness ==
    /\ turnNumber = 3
    /\ lastTurn.n = 3
    /\ foxes[1].tween # NoTween
    /\ bears[1].tween # NoTween
    /\ TilesOf(bears)[1] # << 0, 0 >>

(***************************************************************************)
(* Predators without a legal move (under Spec)                             *)
(***************************************************************************)
Stuck(a) == getAllAdjacentTiles(hardTerrain, a.tileX, a.tileY) = << >>

\* What C16 asks of the array before and after a turn in which it is updated
SkipsOnlyStuck(before, after) ==
    \A i \in 1..Len(before) :
        IF Stuck(before[i])
        THEN after[i] = before[i]
        ELSE /\ after[i] \in MovePredator(hardTerrain, globalRabbit', before[i])
             /\ << after[i].tileX, after[i].tileY >>
                    # << before[i].tileX, before[i].tileY >>

ArrowLeftStep ==
    /\ ~SpaceStep
    /\ globalRabbit'.angleMetric = mod(globalRabbit.angleMetric + 60, 360)

\* C19 (as claimed): from (0, 0), with (1, 0) free, a single ArrowLeft puts
\* the player on tile (1, 0) at the world position tileToPosition(1, 0).
C19_ArrowLeftMoves ==
    [][ (ArrowLeftStep /\ RabbitTile = << 0, 0 >>) =>
            /\ RabbitTile' = << 1, 0 >>
            /\ globalRabbit'.position = << tileToPosition(1, 0) >>
      ]_vars

\* C19 (amended): an arrow key only turns the player by 60 degrees, tile and
\* position stay; a spacebar turn from (0, 0), facing 0 degrees with (1, 0)
\* free, puts the player on tile (1, 0) and starts the jump that ends at
\* tileToPosition(1, 0); and whenever no jump is running the player's world
\* position is tileToPosition of its tile.
C19_TurnThenStep ==
    [][ /\ (globalRabbit'.angleMetric # globalRabbit.angleMetric) =>
            /\ globalRabbit'.angleMetric
                   \in { mod(globalRabbit.angleMetric + 60, 360),
                         mod(globalRabbit.angleMetric - 60, 360) }
            /\ RabbitTile' = RabbitTile
            /\ globalRabbit'.position = globalRabbit.position
        /\ ( /\ SpaceStep
             /\ RabbitTile = << 0, 0 >>
             /\ globalRabbit.angleMetric = 0
             /\ ~TargetBlocked ) =>
            /\ RabbitTile' = << 1, 0 >>
            /\ globalRabbit'.tween.end = << tileToPosition(1, 0) >>
        /\ (globalRabbit'.tween = NoTween) =>
            globalRabbit'.position
                = << tileToPosition(globalRabbit'.tileX, globalRabbit'.tileY) >>
      ]_vars

\* ArrowRight, space and a finished jump: the player stands on (1, 0)
C19_Witness ==
    /\ lastTurn.n = 1
    /\ lastTurn.moved = "accepted"
    /\ globalRabbit.angleMetric = 0
    /\ RabbitTile = << 1, 0 >>
    /\ globalRabbit.tween = NoTween
    /\ globalRabbit.position = << tileToPosition(1, 0) >>

\* The step is a run of the keydown handler
KeyStep == \E key \in Keys \cup StartupKeys \cup DebugKeys : KeyDown(key)

\* The terrain is generated and the player, goal, baby rabbit, bear and fox
\* loads started by buildScene have resolved
ActorLoadsDone == built /\ \A l \in pending : l.kind = "rock"

\* C17: the keydown handler runs only once the terrain is generated and
\* every actor load started by buildScene has resolved, so it never
\* dereferences a missing player or goal
C17_StartupBarrier ==
    [][ KeyStep => (ActorLoadsDone /\ thrown' = "") ]_vars

\* C18: a tile stored as impassable stays stored and impassable, whatever
\* the step: generation, a load callback, a key event, a frame
C18_PassabilityMonotone ==
    [][ \A p \in DOMAIN hardTerrain :
            hardTerrain[p] = 1 => (p \in DOMAIN hardTerrain' /\ hardTerrain'[p] = 1) ]_vars

\* A rock has claimed a tile that generation stored as passable, and a
\* spacebar turn has been played since
C18_Witness ==
    /\ built
    /\ \E p \in RockDraws : GeneratedTerrain[p] = 0 /\ hardTerrain[p] = 1
    /\ turnNumber > 0

\* C20: once the terrain is generated no step changes the stored tiles:
\* their set, and each tile's stored position and height, stay as
\* generated, debug keys included
C20_RegistryReadOnly ==
    [][ built => positionToHexDict' = positionToHexDict ]_vars

\* Some tile of the registry is on the map and passable
SomeValidTile == \E p \in DOMAIN hardTerrain : checkValidTile(hardTerrain, p)

\* The call has returned the tile (sampler.i, sampler.j)
Returned == sampler.pc = "returned"

\* C21: under fair draws, a getRandomValidTile call made while the registry
\* holds at least one on-map passable tile returns in the end, and the tile
\* it returns is on the map and passable
C21_SpawnTerminates ==
    /\ SomeValidTile ~> Returned
    /\ [](Returned =>
            /\ DictGet(XYto1D(sampler.i, sampler.j)) # Undefined
            /\ checkValidTile(hardTerrain, DictGet(XYto1D(sampler.i, sampler.j))))

\* The resolver, asked for the neighbours of tile t, lists tile c under the
\* label angle if c is on the map and passable, and nothing else under it
OnlyUnder(t, angle, c) ==
    LET entries == Entries(t)
        index == XYto1D(c[1], c[2])
    IN  /\ \A e \in entries : e[2] = angle => e[1] = index
        /\ (DictGet(index) # Undefined /\ checkValidTile(hardTerrain, DictGet(index)))
               => << index, angle >> \in entries

\* C22 as stated: for the predator's tile (x, y) with y even, the resolver's
\* 300-degree candidate is (x, y + 1) when y < 0 and (x + 1, y + 1) otherwise
C22_EvenRow300AsStated ==
    mod(FoxTile[2], 2) = 0 =>
        OnlyUnder(FoxTile, 300,
                  IF FoxTile[2] < 0 THEN << FoxTile[1], FoxTile[2] + 1 >>
                  ELSE << FoxTile[1] + 1, FoxTile[2] + 1 >>)

\* C22, amended: for the predator's tile (x, y) with y even, the resolver's
\* 300-degree candidate is (x + 1, y + 1) when y < 0 and (x, y + 1) otherwise
C22_EvenRow300 ==
    mod(FoxTile[2], 2) = 0 =>
        OnlyUnder(FoxTile, 300,
                  IF FoxTile[2] < 0 THEN << FoxTile[1] + 1, FoxTile[2] + 1 >>
                  ELSE << FoxTile[1], FoxTile[2] + 1 >>)

\* The predator has stepped onto (-1, -2), an even row below y = 0, and
\* its 300-degree entry is (0, -1)
C22_Witness ==
    /\ foxes[1].tween # NoTween
    /\ FoxTile = << -1, -2 >>
    /\ << XYto1D(0, -1), 300 >> \in Entries(FoxTile)

\* The tiles of the actors that are in the scene: the player, the goal
\* star, the foxes, the bears and the baby rabbits not collected yet
ActorTiles ==
    ( IF globalRabbit = Undefined THEN { } ELSE { RabbitTile } )
        \cup ( IF globalStar = Undefined THEN { } ELSE { StarTile } )
        \cup { << foxes[n].tileX, foxes[n].tileY >> : n \in 1..Len(foxes) }
        \cup { << bears[n].tileX, bears[n].tileY >> : n \in 1..Len(bears) }
        \cup { << babyRabbits[n].tileX, babyRabbits[n].tileY >> :
                   n \in (1..Len(babyRabbits)) \ collected }

\* C23: in every reachable state every actor's tile is on the map and
\* passable, whatever the order of the spawns, the moves and the rock and
\* tree callbacks
C23_ActorsOnPassableTiles == \A t \in ActorTiles : Passable(t)

\* The world offset that belongs to a direction label, in thousandths
\* (W = 1.77, H = 1.535)
LabelOffset(angle) ==
    CASE angle = 0   -> << 1770, 0 >>
      [] angle = 180 -> << -1770, 0 >>
      [] angle = 300 -> << 885, 1535 >>
      [] angle = 240 -> << -885, 1535 >>
      [] angle = 120 -> << -885, -1535 >>
      [] angle = 60  -> << 885, -1535 >>

\* Tile c lies at the offset of the label angle from tile t
AtOffset(t, c, angle) ==
    LET from == tileToPosition(t[1], t[2])
        to == tileToPosition(c[1], c[2])
    IN  << to[1] - from[1], to[2] - from[2] >> = LabelOffset(angle)

\* The candidates of the six labels around the predator's tile
FoxCandidates ==
    [ n \in 1..Len(ResolverOrder) |->
         AdjacentCandidate(FoxTile[1], FoxTile[2], ResolverOrder[n]) ]

\* Each of the candidates c lies at its label's world offset under
\* tileToPosition (in exact arithmetic), so do the entries the resolver
\* returns, and the six candidates are distinct
CandidatesAtOffsets(c) ==
    /\ \A n \in 1..Len(ResolverOrder) : AtOffset(FoxTile, c[n], ResolverOrder[n])
    /\ \A e \in Entries(FoxTile) : AtOffset(FoxTile, oneDtoXY(e[1]), e[2])
    /\ \A m, n \in 1..Len(ResolverOrder) : c[m] = c[n] => m = n

\* The squared distances from the predator's tile to the candidates c
CandidateDistanceSq(c) ==
    [ n \in 1..Len(ResolverOrder) |->
         DistanceSq(tileToPosition(FoxTile[1], FoxTile[2]),
                    tileToPosition(c[n][1], c[n][2])) ]

RabbitTarget(angle) == MoveTarget(globalRabbit.tileX, globalRabbit.tileY, angle)

\* C25: from the player's tile, for each of the six facing angles, the move
\* table targets the candidate the resolver computes for that label; and a
\* spacebar move is accepted, and lands on that tile, exactly when the
\* resolver lists the tile under the label of the facing angle
C25_MoveTableIsResolver ==
    [][ /\ \A angle \in Angles :
               RabbitTarget(angle)
                   = AdjacentCandidate(globalRabbit.tileX, globalRabbit.tileY, angle)
        /\ SpaceStep =>
               LET target == RabbitTarget(globalRabbit.angleMetric)
                   listed == << XYto1D(target[1], target[2]), globalRabbit.angleMetric >>
                                 \in Entries(RabbitTile)
               IN  /\ (lastTurn'.moved = "accepted") <=> listed
                   /\ << globalRabbit'.tileX, globalRabbit'.tileY >>
                          = IF listed THEN target ELSE RabbitTile ]_vars

\* The player has moved from (-1, -2), an even row below y = 0, to
\* (-1, -1) facing 240 degrees
C25_Witness ==
    /\ lastTurn.moved = "accepted"
    /\ globalRabbit.angleMetric = 240
    /\ RabbitTile = << -1, -1 >>
    /\ globalRabbit.position = << tileToPosition(-1, -2) >>

\* C26: for the player's tile and each of the six directions, the key of a
\* candidate (the move table's or the resolver's) that is not a generated
\* tile is the key of no generated tile; so a spacebar move towards such a
\* candidate is rejected and leaves the player on its tile
C26_NoKeyAliasing ==
    [][ /\ \A angle \in Angles :
             \A c \in { RabbitTarget(angle),
                         AdjacentCandidate(globalRabbit.tileX, globalRabbit.tileY, angle) } :
                 c \notin Tiles => XYto1D(c[1], c[2]) \notin DOMAIN XYtoPositionDict
        /\ (SpaceStep /\ RabbitTarget(globalRabbit.angleMetric) \notin Tiles) =>
               /\ lastTurn'.moved = "rejected"
               /\ << globalRabbit'.tileX, globalRabbit'.tileY >> = RabbitTile ]_vars

\* The player, on the rim tile (2, 0) and facing 0 degrees, has pressed the
\* spacebar towards (3, 0), which is not on the map
C26_Witness ==
    /\ lastTurn.moved = "rejected"
    /\ RabbitTile = << 2, 0 >>
    /\ globalRabbit.angleMetric = 0
    /\ RabbitTarget(0) \notin Tiles
====
